---- MODULE Spec2Model ----
(***************************************************************************)
(* Model of the real-estate calculator core (src/calculator.py) and of the *)
(* year loop of its Streamlit front end (src/streamlit_app.py).            *)
(*                                                                         *)
(* Numbers.  The program computes in Python floats.  The model computes    *)
(* the same expressions, in the same order, in exact rational arithmetic:  *)
(* a number is a pair <<n, d>> in lowest terms with d > 0.  Rounding is    *)
(* therefore not modelled.  A Python ZeroDivisionError (x / 0, 0 ** -k) is *)
(* the value NaR = <<0, 0>>, which every operation propagates; a method    *)
(* whose evaluation meets NaR raises.  TLC's integers are 32 bits wide, so *)
(* the inputs are chosen with monthly rates such as 1 (1200 % a year) for  *)
(* which (1 + r) ** n stays representable.                                 *)
(***************************************************************************)
EXTENDS Integers, Sequences, FiniteSets, TLC

VARIABLES
    analysis,   \* the RealEstateInvestmentAnalysis instance (all its fields)
    op,         \* name of the last operation called on it
    args,       \* arguments of that call
    exc,        \* "none", or the exception that call raised
    ret,        \* value that call returned (NoValue when it raised)
    calls,      \* number of calls made so far
    loan,       \* a MortgageLoan queried on its own
    market,     \* inflation_rate / prime_base_rate passed to its queries
    payments,   \* results of get_payment_at_year on loan, one per year asked
    balances,   \* results of _calculate_remaining_balance on loan
    callers     \* two callers stepping through a sweep on the one instance

vars == <<analysis, op, args, exc, ret, calls, loan, market, payments, balances, callers>>

-----------------------------------------------------------------------------
(* Bounds of the model.                                                    *)

\* Calls made on one projection instance.
MaxCalls == 2
\* Years past the end of the term at which a tranche is still queried.
MaxPastTerm == 1

-----------------------------------------------------------------------------
(* Exact rational arithmetic standing for Python's float arithmetic.       *)

NaR == <<0, 0>>
NoValue == <<>>

IsNaR(x) == x[2] = 0

AbsInt(n) == IF n < 0 THEN -n ELSE n

RECURSIVE GCD(_, _)
GCD(a, b) == IF b = 0 THEN a ELSE GCD(b, a % b)

Norm(n, d) ==
    IF d = 0 THEN NaR
    ELSE LET s == IF d < 0 THEN -1 ELSE 1
             g == GCD(AbsInt(n), AbsInt(d))
         IN  <<(s * n) \div g, (s * d) \div g>>

Num(n) == <<n, 1>>
Zero == Num(0)
One == Num(1)

RAdd(x, y) ==
    IF IsNaR(x) \/ IsNaR(y) THEN NaR
    ELSE LET g == GCD(x[2], y[2])
         IN  Norm(x[1] * (y[2] \div g) + y[1] * (x[2] \div g), (x[2] \div g) * y[2])

RNeg(x) == IF IsNaR(x) THEN NaR ELSE <<-x[1], x[2]>>

RSub(x, y) == RAdd(x, RNeg(y))

RMul(x, y) ==
    IF IsNaR(x) \/ IsNaR(y) THEN NaR
    ELSE IF x[1] = 0 \/ y[1] = 0 THEN Zero
    ELSE LET g1 == GCD(AbsInt(x[1]), y[2])
             g2 == GCD(AbsInt(y[1]), x[2])
         IN  Norm((x[1] \div g1) * (y[1] \div g2), (x[2] \div g2) * (y[2] \div g1))

\* x / y: ZeroDivisionError when y is 0.
RDiv(x, y) ==
    IF IsNaR(x) \/ IsNaR(y) \/ y[1] = 0 THEN NaR
    ELSE RMul(x, Norm(y[2], y[1]))

\* n ** k for integers n and k >= 0, by repeated squaring.
RECURSIVE IntPow(_, _)
IntPow(n, k) ==
    IF k = 0 THEN 1
    ELSE IF k % 2 = 1 THEN n * IntPow(n, k - 1)
    ELSE IntPow(n * n, k \div 2)

\* x ** k for an integer k: 0 ** 0 is 1, 0 ** -k raises ZeroDivisionError.
\* A fraction in lowest terms stays in lowest terms when raised to a power.
RPow(x, k) ==
    IF IsNaR(x) THEN NaR
    ELSE IF k >= 0 THEN <<IntPow(x[1], k), IntPow(x[2], k)>>
    ELSE IF x[1] = 0 THEN NaR
    ELSE Norm(IntPow(x[2], -k), IntPow(x[1], -k))

RAbs(x) == IF IsNaR(x) THEN NaR ELSE <<AbsInt(x[1]), x[2]>>

RLt(x, y) == ~IsNaR(x) /\ ~IsNaR(y) /\ x[1] * y[2] < y[1] * x[2]
RLe(x, y) == ~IsNaR(x) /\ ~IsNaR(y) /\ x[1] * y[2] <= y[1] * x[2]
RGt(x, y) == RLt(y, x)
RGe(x, y) == RLe(y, x)

-----------------------------------------------------------------------------
(* class MortgageLoan                                                      *)

MonthsPerYear == 12
PercentBase == 100

\* r = rate / 12 / 100
MonthlyRate(rate) == RDiv(RDiv(rate, Num(MonthsPerYear)), Num(PercentBase))

\* _calculate_initial_payment with n counted in years instead of months.
_calculate_initial_payment_years(self) ==
    LET n == self.term_years
        r == MonthlyRate(self.base_interest_rate)
    IN  RDiv(RMul(self.loan_amount, RMul(r, RPow(RAdd(One, r), n))),
             RSub(RPow(RAdd(One, r), n), One))

\* loan_amount * (r * (1 + r) ** n) / ((1 + r) ** n - 1)
_calculate_initial_payment(self) ==
    LET n == self.term_years * MonthsPerYear
        r == MonthlyRate(self.base_interest_rate)
    IN  RDiv(RMul(self.loan_amount, RMul(r, RPow(RAdd(One, r), n))),
             RSub(RPow(RAdd(One, r), n), One))

MortgageLoan(loan_amount, interest_rate, term_years, is_fixed, prime_spread) ==
    LET self == [loan_amount |-> loan_amount,
                 base_interest_rate |-> interest_rate,
                 term_years |-> term_years,
                 is_fixed |-> is_fixed,
                 prime_spread |-> prime_spread]
    IN  [loan_amount |-> loan_amount,
         base_interest_rate |-> interest_rate,
         term_years |-> term_years,
         is_fixed |-> is_fixed,
         prime_spread |-> prime_spread,
         monthly_payment |-> _calculate_initial_payment(self)]

\* _calculate_remaining_balance with t counted in years instead of months.
Loan_calculate_remaining_balance_years(self, year) ==
    LET n == self.term_years * MonthsPerYear
        t == year
        r == MonthlyRate(self.base_interest_rate)
    IN  IF t >= n THEN Zero
        ELSE RDiv(RMul(self.loan_amount,
                       RSub(RPow(RAdd(One, r), n), RPow(RAdd(One, r), t))),
                  RSub(RPow(RAdd(One, r), n), One))

Loan_calculate_remaining_balance(self, year) ==
    LET n == self.term_years * MonthsPerYear
        t == year * MonthsPerYear
        r == MonthlyRate(self.base_interest_rate)
    IN  IF t >= n THEN Zero
        ELSE RDiv(RMul(self.loan_amount,
                       RSub(RPow(RAdd(One, r), n), RPow(RAdd(One, r), t))),
                  RSub(RPow(RAdd(One, r), n), One))

\* get_payment_at_year with the spread subtracted from the prime rate.
get_payment_at_year_less_spread(self, year, inflation_rate, prime_base_rate) ==
    IF self.is_fixed THEN self.monthly_payment
    ELSE LET effective_rate ==
                 MonthlyRate(RSub(RAdd(prime_base_rate, inflation_rate), self.prime_spread))
             remaining_term == (self.term_years - year) * MonthsPerYear
             remaining_balance == Loan_calculate_remaining_balance(self, year)
         IN  IF IsNaR(remaining_balance) THEN NaR
             ELSE IF remaining_term <= 0 THEN Zero
             ELSE RDiv(RMul(remaining_balance,
                            RMul(effective_rate,
                                 RPow(RAdd(One, effective_rate), remaining_term))),
                       RSub(RPow(RAdd(One, effective_rate), remaining_term), One))

\* get_payment_at_year with the paid-off test remaining_term < 0.
get_payment_at_year_strict(self, year, inflation_rate, prime_base_rate) ==
    IF self.is_fixed THEN self.monthly_payment
    ELSE LET effective_rate ==
                 MonthlyRate(RAdd(RAdd(prime_base_rate, inflation_rate), self.prime_spread))
             remaining_term == (self.term_years - year) * MonthsPerYear
             remaining_balance == Loan_calculate_remaining_balance(self, year)
         IN  IF IsNaR(remaining_balance) THEN NaR
             ELSE IF remaining_term < 0 THEN Zero
             ELSE RDiv(RMul(remaining_balance,
                            RMul(effective_rate,
                                 RPow(RAdd(One, effective_rate), remaining_term))),
                       RSub(RPow(RAdd(One, effective_rate), remaining_term), One))

get_payment_at_year(self, year, inflation_rate, prime_base_rate) ==
    IF self.is_fixed THEN self.monthly_payment
    ELSE LET effective_rate ==
                 MonthlyRate(RAdd(RAdd(prime_base_rate, inflation_rate), self.prime_spread))
             remaining_term == (self.term_years - year) * MonthsPerYear
             remaining_balance == Loan_calculate_remaining_balance(self, year)
         IN  IF IsNaR(remaining_balance) THEN NaR
             ELSE IF remaining_term <= 0 THEN Zero
             ELSE RDiv(RMul(remaining_balance,
                            RMul(effective_rate,
                                 RPow(RAdd(One, effective_rate), remaining_term))),
                       RSub(RPow(RAdd(One, effective_rate), remaining_term), One))

-----------------------------------------------------------------------------
(* class RealEstateInvestmentAnalysis                                      *)

\* __init__: p is the record of the constructor's keyword arguments.
RealEstateInvestmentAnalysis(p) ==
    LET down_payment == RMul(p.property_value, RDiv(p.down_payment_percent, Num(PercentBase)))
        loan_amount == RSub(p.property_value, down_payment)
        fixed_loan_amount == RMul(loan_amount, RDiv(p.fixed_portion, Num(PercentBase)))
        variable_loan_amount ==
            RMul(loan_amount, RDiv(RSub(Num(PercentBase), p.fixed_portion), Num(PercentBase)))
    IN  [property_value |-> p.property_value,
         down_payment_percent |-> p.down_payment_percent,
         fixed_rate |-> p.fixed_rate,
         variable_rate |-> p.variable_rate,
         loan_term_years |-> p.loan_term_years,
         rental_income |-> p.rental_income,
         annual_appreciation_rate |-> p.annual_appreciation_rate,
         years |-> p.years,
         central_rent |-> p.central_rent,
         monthly_savings |-> p.monthly_savings,
         savings_return_rate |-> p.savings_return_rate,
         inflation_rate |-> p.inflation_rate,
         fixed_portion |-> p.fixed_portion,
         prime_base_rate |-> p.prime_base_rate,
         down_payment |-> down_payment,
         loan_amount |-> loan_amount,
         fixed_loan_amount |-> fixed_loan_amount,
         variable_loan_amount |-> variable_loan_amount,
         fixed_loan |-> MortgageLoan(fixed_loan_amount, p.fixed_rate,
                                     p.loan_term_years, TRUE, Zero),
         variable_loan |-> MortgageLoan(variable_loan_amount, p.variable_rate,
                                        p.loan_term_years, FALSE,
                                        RSub(p.variable_rate, p.prime_base_rate))]

\* The constructor raises when one of the two annuity payments divides by zero.
InitRaises(self) ==
    \/ IsNaR(self.fixed_loan.monthly_payment)
    \/ IsNaR(self.variable_loan.monthly_payment)

_calculate_total_mortgage_payment(self, year) ==
    LET fixed_payment ==
            get_payment_at_year(self.fixed_loan, year, self.inflation_rate, self.prime_base_rate)
        variable_payment ==
            get_payment_at_year(self.variable_loan, year, self.inflation_rate, self.prime_base_rate)
    IN  RAdd(fixed_payment, variable_payment)

_calculate_remaining_balance(self, year) ==
    LET fixed_balance == Loan_calculate_remaining_balance(self.fixed_loan, year)
        variable_balance == Loan_calculate_remaining_balance(self.variable_loan, year)
    IN  RAdd(fixed_balance, variable_balance)

\* 1 + inflation_rate / 100
InflationFactor(self) == RAdd(One, RDiv(self.inflation_rate, Num(PercentBase)))

\* The adjustment compounded over one year too few.
_calculate_inflation_adjusted_value_short(self, nominal_value, years) ==
    RDiv(nominal_value, RPow(InflationFactor(self), years - 1))

_calculate_inflation_adjusted_value(self, nominal_value, years) ==
    RDiv(nominal_value, RPow(InflationFactor(self), years))

\* for year in range(years): total += monthly_amount * 12 * (1 + inflation / 100) ** year
RECURSIVE IncomeStreamFrom(_, _, _, _, _)
IncomeStreamFrom(self, monthly_amount, years, year, total) ==
    IF year >= years THEN total
    ELSE IncomeStreamFrom(self, monthly_amount, years, year + 1,
             RAdd(total, RMul(RMul(monthly_amount, Num(MonthsPerYear)),
                              RPow(InflationFactor(self), year))))

_calculate_inflated_income_stream(self, monthly_amount, years) ==
    IncomeStreamFrom(self, monthly_amount, years, 0, Zero)

\* One {nominal, real} pair of a result map.
Pair(self, nominal) ==
    [nominal |-> nominal,
     real |-> _calculate_inflation_adjusted_value(self, nominal, self.years)]

\* formatted_results[k] = v['real'] if show_real_values else v['nominal']
Sel(v, show_real_values) == IF show_real_values THEN v.real ELSE v.nominal

AnyNaR(values) == \E i \in 1..Len(values) : IsNaR(values[i])

PairNaR(v) == IsNaR(v.nominal) \/ IsNaR(v.real)

\* "High" if current_ltv > 90 else "Medium" if current_ltv > 80 else "Low"
HighLtv == 90
MediumLtv == 80
\* DefaultRisk with the thresholds themselves counted into the higher tier.
DefaultRiskInclusive(current_ltv) ==
    IF RGe(current_ltv, Num(HighLtv)) THEN "High"
    ELSE IF RGe(current_ltv, Num(MediumLtv)) THEN "Medium"
    ELSE "Low"

DefaultRisk(current_ltv) ==
    IF RGt(current_ltv, Num(HighLtv)) THEN "High"
    ELSE IF RGt(current_ltv, Num(MediumLtv)) THEN "Medium"
    ELSE "Low"

\* The elapsed year calculate_buy_scenario passes to the balance queries (lines 122,
\* 177-178) and to the payment queries (lines 123, 173-176).
BalanceYear(self) == self.years

PaymentYear(self) == self.years - 1

\* The escalation with the exponent years.
FinalYearEscalationWhole(self) == RPow(InflationFactor(self), self.years)

\* (1 + self.inflation_rate / 100) ** (self.years - 1): the final-year multiplier of
\* the rental income and the central rent (lines 126-127) and of the rent and
\* the savings (lines 208-209).
FinalYearEscalation(self) == RPow(InflationFactor(self), self.years - 1)

\* Lines 119-127: the nominal figures the rest of the method is computed from.
BuyNominal(self, property_value_change) ==
    LET current_value ==
            RMul(self.property_value,
                 RAdd(One, RDiv(property_value_change, Num(PercentBase))))
    IN  [nominal_future_value |->
             RMul(current_value,
                  RPow(RAdd(One, RDiv(self.annual_appreciation_rate, Num(PercentBase))),
                       self.years)),
         remaining_balance |-> _calculate_remaining_balance(self, BalanceYear(self)),
         final_monthly_payment |-> _calculate_total_mortgage_payment(self, PaymentYear(self)),
         final_year_monthly_rental |->
             RMul(self.rental_income, FinalYearEscalation(self)),
         final_year_monthly_central_rent |->
             RMul(self.central_rent, FinalYearEscalation(self))]

\* central rent + abs(monthly net income): the monthly outflow that lines 164-170
\* negate, before and after the inflation adjustment.
MonthlyOutflowSigned(central_rent, monthly_net_income) ==
    RAdd(central_rent, monthly_net_income)

MonthlyOutflow(central_rent, monthly_net_income) ==
    RAdd(central_rent, RAbs(monthly_net_income))

\* Lines 129-181: the result map of {nominal, real} pairs, from the figures v.
BuyResult(self, v) ==
    LET nominal_monthly_net_income ==
            RSub(v.final_year_monthly_rental, v.final_monthly_payment)
        nominal_nav == RSub(v.nominal_future_value, v.remaining_balance)
        current_ltv ==
            RMul(RDiv(v.remaining_balance, v.nominal_future_value), Num(PercentBase))
    IN  [property_value |-> Pair(self, v.nominal_future_value),
         remaining_balance |->
             [nominal |-> v.remaining_balance, real |-> v.remaining_balance],
         nav |-> Pair(self, nominal_nav),
         mortgage_payment |-> Pair(self, v.final_monthly_payment),
         rental_income |-> Pair(self, v.final_year_monthly_rental),
         monthly_net_income |-> Pair(self, nominal_monthly_net_income),
         central_rent |-> Pair(self, v.final_year_monthly_central_rent),
         total_monthly_cashflow |->
             [nominal |-> RNeg(MonthlyOutflow(v.final_year_monthly_central_rent,
                                              nominal_monthly_net_income)),
              real |-> RNeg(_calculate_inflation_adjusted_value(self,
                                MonthlyOutflow(v.final_year_monthly_central_rent,
                                               nominal_monthly_net_income),
                                self.years))],
         ltv |-> current_ltv,
         default_risk |-> DefaultRisk(current_ltv),
         mortgage_breakdown |->
             [fixed_payment |-> get_payment_at_year(self.fixed_loan, PaymentYear(self),
                                    self.inflation_rate, self.prime_base_rate),
              variable_payment |-> get_payment_at_year(self.variable_loan, PaymentYear(self),
                                       self.inflation_rate, self.prime_base_rate),
              fixed_balance |->
                  Loan_calculate_remaining_balance(self.fixed_loan, BalanceYear(self)),
              variable_balance |->
                  Loan_calculate_remaining_balance(self.variable_loan, BalanceYear(self))]]

\* The evaluation of lines 119-181 raised: some value it computes divided by zero.
BuyRaised(result) ==
    \/ PairNaR(result.property_value) \/ PairNaR(result.remaining_balance)
    \/ PairNaR(result.nav) \/ PairNaR(result.mortgage_payment)
    \/ PairNaR(result.rental_income) \/ PairNaR(result.monthly_net_income)
    \/ PairNaR(result.central_rent) \/ PairNaR(result.total_monthly_cashflow)
    \/ IsNaR(result.ltv)
    \/ AnyNaR(<<result.mortgage_breakdown.fixed_payment,
                result.mortgage_breakdown.variable_payment,
                result.mortgage_breakdown.fixed_balance,
                result.mortgage_breakdown.variable_balance>>)

\* BuyFormat taking the fixed payment of the breakdown from the total payment in
\* real values.
BuyFormatBreakdownReal(result, show_real_values) ==
    [exc |-> IF BuyRaised(result) THEN "ZeroDivisionError" ELSE "none",
     property_value |-> Sel(result.property_value, show_real_values),
     remaining_balance |-> Sel(result.remaining_balance, show_real_values),
     nav |-> Sel(result.nav, show_real_values),
     mortgage_payment |-> Sel(result.mortgage_payment, show_real_values),
     rental_income |-> Sel(result.rental_income, show_real_values),
     monthly_net_income |-> Sel(result.monthly_net_income, show_real_values),
     central_rent |-> Sel(result.central_rent, show_real_values),
     total_monthly_cashflow |-> Sel(result.total_monthly_cashflow, show_real_values),
     ltv |-> result.ltv,
     default_risk |-> result.default_risk,
     mortgage_breakdown |->
         IF show_real_values
         THEN [result.mortgage_breakdown EXCEPT !.fixed_payment = result.mortgage_payment.real]
         ELSE result.mortgage_breakdown]

\* Lines 183-192.  exc = "ZeroDivisionError" when the evaluation raised (the other
\* fields are then not returned to the caller).
BuyFormat(result, show_real_values) ==
    [exc |-> IF BuyRaised(result) THEN "ZeroDivisionError" ELSE "none",
     property_value |-> Sel(result.property_value, show_real_values),
     remaining_balance |-> Sel(result.remaining_balance, show_real_values),
     nav |-> Sel(result.nav, show_real_values),
     mortgage_payment |-> Sel(result.mortgage_payment, show_real_values),
     rental_income |-> Sel(result.rental_income, show_real_values),
     monthly_net_income |-> Sel(result.monthly_net_income, show_real_values),
     central_rent |-> Sel(result.central_rent, show_real_values),
     total_monthly_cashflow |-> Sel(result.total_monthly_cashflow, show_real_values),
     ltv |-> result.ltv,
     default_risk |-> result.default_risk,
     mortgage_breakdown |-> result.mortgage_breakdown]

calculate_buy_scenario(self, property_value_change, show_real_values) ==
    BuyFormat(BuyResult(self, BuyNominal(self, property_value_change)), show_real_values)

\* Lines 197-209.
RentNominal(self) ==
    LET growth == RPow(RAdd(One, RDiv(self.savings_return_rate, Num(PercentBase))),
                       self.years)
    IN  [nominal_future_savings |->
             RMul(_calculate_inflated_income_stream(self, self.monthly_savings, self.years),
                  growth),
         nominal_future_down_payment |-> RMul(self.down_payment, growth),
         final_year_monthly_rent |->
             RMul(self.central_rent, FinalYearEscalation(self)),
         final_year_monthly_savings |->
             RMul(self.monthly_savings, FinalYearEscalation(self))]

\* Lines 211-242.
RentResult(self, v) ==
    [future_monthly_savings |-> Pair(self, v.nominal_future_savings),
     future_down_payment |-> Pair(self, v.nominal_future_down_payment),
     nav |-> Pair(self, RAdd(v.nominal_future_savings, v.nominal_future_down_payment)),
     monthly_rent |-> Pair(self, v.final_year_monthly_rent),
     monthly_savings |-> Pair(self, v.final_year_monthly_savings),
     total_monthly_cashflow |->
         [nominal |-> RNeg(RAdd(v.final_year_monthly_rent, v.final_year_monthly_savings)),
          real |-> RNeg(_calculate_inflation_adjusted_value(self,
                            RAdd(v.final_year_monthly_rent, v.final_year_monthly_savings),
                            self.years))]]

RentRaised(result) ==
    \/ PairNaR(result.future_monthly_savings) \/ PairNaR(result.future_down_payment)
    \/ PairNaR(result.nav) \/ PairNaR(result.monthly_rent)
    \/ PairNaR(result.monthly_savings) \/ PairNaR(result.total_monthly_cashflow)

\* Lines 244-251.
RentFormat(result, show_real_values) ==
    [exc |-> IF RentRaised(result) THEN "ZeroDivisionError" ELSE "none",
     future_monthly_savings |-> Sel(result.future_monthly_savings, show_real_values),
     future_down_payment |-> Sel(result.future_down_payment, show_real_values),
     nav |-> Sel(result.nav, show_real_values),
     monthly_rent |-> Sel(result.monthly_rent, show_real_values),
     monthly_savings |-> Sel(result.monthly_savings, show_real_values),
     total_monthly_cashflow |-> Sel(result.total_monthly_cashflow, show_real_values)]

calculate_rent_scenario(self, show_real_values) ==
    RentFormat(RentResult(self, RentNominal(self)), show_real_values)

\* The scenario list with the crash and the stagnation exchanged.
RiskScenarioListExchanged(base_appreciation) ==
    <<[name |-> "Base Case", value_change |-> Num(0),
       growth_rate |-> base_appreciation],
      [name |-> "Stagnant Market", value_change |-> Num(0),
       growth_rate |-> RSub(base_appreciation, One)],
      [name |-> "Market Crash", value_change |-> Num(-20),
       growth_rate |-> RSub(base_appreciation, One)],
      [name |-> "Strong Market", value_change |-> Num(5),
       growth_rate |-> RAdd(base_appreciation, One)]>>

\* The four market scenarios built from base_appreciation (lines 257-282).
RiskScenarioList(base_appreciation) ==
    <<[name |-> "Base Case", value_change |-> Num(0),
       growth_rate |-> base_appreciation],
      [name |-> "Market Crash", value_change |-> Num(-20),
       growth_rate |-> RSub(base_appreciation, One)],
      [name |-> "Stagnant Market", value_change |-> Num(0),
       growth_rate |-> RSub(base_appreciation, One)],
      [name |-> "Strong Market", value_change |-> Num(5),
       growth_rate |-> RAdd(base_appreciation, One)]>>

\* The row appended for one scenario (lines 291-297).  Growth_Rate stands for the
\* rate the Description string quotes.
RiskRow(scenario, result) ==
    [Market_Scenario |-> scenario.name,
     Growth_Rate |-> scenario.growth_rate,
     Final_Property_Value |-> result.property_value,
     Net_Asset_Value |-> result.nav,
     Risk_Level |-> result.default_risk]

\* for scenario in scenarios: ... (lines 287-297); an exception leaves the loop at
\* once, with the instance as the failing iteration left it.
RECURSIVE RiskLoop(_, _, _, _, _)
RiskIteration(self1, scenarios, i, results, show_real_values, result) ==
    IF result.exc # "none"
    THEN [analysis |-> self1, exc |-> result.exc, value |-> NoValue]
    ELSE RiskLoop(self1, scenarios, i + 1, Append(results, RiskRow(scenarios[i], result)),
                  show_real_values)

RiskAssign(self1, scenarios, i, results, show_real_values) ==
    RiskIteration(self1, scenarios, i, results, show_real_values,
        calculate_buy_scenario(self1, scenarios[i].value_change, show_real_values))

RiskLoop(self, scenarios, i, results, show_real_values) ==
    IF i > Len(scenarios) THEN [analysis |-> self, exc |-> "none", value |-> results]
    ELSE RiskAssign([self EXCEPT !.annual_appreciation_rate = scenarios[i].growth_rate],
                    scenarios, i, results, show_real_values)

\* RiskRestore without line 299.
RiskRestoreOmitted(out, original_appreciation) == out

\* Line 299, reached only when the loop ended without an exception.
RiskRestore(out, original_appreciation) ==
    IF out.exc # "none" THEN out
    ELSE [out EXCEPT !.analysis.annual_appreciation_rate = original_appreciation]

\* Returns the instance as the call leaves it, the exception and the rows.
generate_risk_scenarios(self, show_real_values) ==
    RiskRestore(RiskLoop(self, RiskScenarioList(self.annual_appreciation_rate), 1, <<>>,
                         show_real_values),
                self.annual_appreciation_rate)

\* The row data of one year (calculator.py lines 341-358, streamlit_app.py 280-293).
YearData(buy_results, rent_results) ==
    [property_value |-> buy_results.property_value,
     total_mortgage |-> RAdd(buy_results.mortgage_breakdown.fixed_balance,
                             buy_results.mortgage_breakdown.variable_balance),
     buy_nav |-> buy_results.nav,
     rent_nav |-> rent_results.nav,
     nav_difference |-> RSub(buy_results.nav, rent_results.nav)]

\* Lines 337-358 of get_year_data, with analysis.years already overwritten: both
\* scenarios, then the restore of years, which an exception skips.
YearCompute(analysis1, original_years, buy_results, rent_results) ==
    IF buy_results.exc # "none"
    THEN [analysis |-> analysis1, exc |-> buy_results.exc, value |-> NoValue]
    ELSE IF rent_results.exc # "none"
    THEN [analysis |-> analysis1, exc |-> rent_results.exc, value |-> NoValue]
    ELSE [analysis |-> [analysis1 EXCEPT !.years = original_years],
          exc |-> "none",
          value |-> YearData(buy_results, rent_results)]

YearAssign(analysis1, original_years, show_real_values) ==
    YearCompute(analysis1, original_years,
                calculate_buy_scenario(analysis1, Num(0), show_real_values),
                calculate_rent_scenario(analysis1, show_real_values))

\* get_year_data computing the horizon after the one asked for.
get_year_data_next(analysis0, year, show_real_values) ==
    YearAssign([analysis0 EXCEPT !.years = year + 1], analysis0.years, show_real_values)

\* get_year_data inside generate_yearly_comparison (lines 331-358).
get_year_data(analysis0, year, show_real_values) ==
    YearAssign([analysis0 EXCEPT !.years = year], analysis0.years, show_real_values)

\* Lines 363-364: the row and its CSS class.
YearRow(year, data) ==
    [year |-> year,
     data |-> data,
     nav_difference_class |->
         IF RGt(data.nav_difference, Zero) THEN "positive" ELSE "negative"]

\* for year in range(analysis.years + 1): the range is fixed when the loop starts.
RECURSIVE YearlyLoop(_, _, _, _, _)
YearlyIteration(year, last, rows, show_real_values, out) ==
    IF out.exc # "none" THEN out
    ELSE YearlyLoop(out.analysis, year + 1, last, Append(rows, YearRow(year, out.value)),
                    show_real_values)

YearlyLoop(analysis0, year, last, rows, show_real_values) ==
    IF year > last THEN [analysis |-> analysis0, exc |-> "none", value |-> rows]
    ELSE YearlyIteration(year, last, rows, show_real_values,
                         get_year_data(analysis0, year, show_real_values))

generate_yearly_comparison(analysis0, show_real_values) ==
    YearlyLoop(analysis0, 0, analysis0.years, <<>>, show_real_values)

\* The year loop of the Streamlit page (streamlit_app.py lines 271-296): the same
\* save, overwrite, compute, restore, always in nominal values.
RECURSIVE StreamlitYearLoop(_, _, _, _)
StreamlitIteration(year, last, years_df, out) ==
    IF out.exc # "none" THEN out
    ELSE StreamlitYearLoop(out.analysis, year + 1, last,
                           Append(years_df, [year |-> year, data |-> out.value]))

StreamlitYearLoop(analysis0, year, last, years_df) ==
    IF year > last THEN [analysis |-> analysis0, exc |-> "none", value |-> years_df]
    ELSE StreamlitIteration(year, last, years_df,
             YearAssign([analysis0 EXCEPT !.years = year], analysis0.years, FALSE))

streamlit_year_loop(analysis0) ==
    StreamlitYearLoop(analysis0, 0, analysis0.years, <<>>)

\* The button handler of the page after it has built the instance (streamlit_app.py
\* lines 185-296): both scenarios, the risk sweep, then the year loop.  The first
\* exception ends it, in the handler's except clause.
StreamlitAfterRisk(risk) ==
    IF risk.exc # "none" THEN [analysis |-> risk.analysis, exc |-> risk.exc, value |-> NoValue]
    ELSE streamlit_year_loop(risk.analysis)

StreamlitAfterScenarios(analysis0, buy_results, rent_results) ==
    IF buy_results.exc # "none"
    THEN [analysis |-> analysis0, exc |-> buy_results.exc, value |-> NoValue]
    ELSE IF rent_results.exc # "none"
    THEN [analysis |-> analysis0, exc |-> rent_results.exc, value |-> NoValue]
    ELSE StreamlitAfterRisk(generate_risk_scenarios(analysis0, FALSE))

streamlit_main(analysis0) ==
    StreamlitAfterScenarios(analysis0,
                            calculate_buy_scenario(analysis0, Num(0), FALSE),
                            calculate_rent_scenario(analysis0, FALSE))

-----------------------------------------------------------------------------
(* Inputs.                                                                 *)

\* Longest analysis horizon (years) given to the constructor.
MaxYears == 2

Params(property_value, down_payment_percent, fixed_rate, variable_rate, loan_term_years, rental_income, annual_appreciation_rate, years, central_rent, monthly_savings, savings_return_rate, inflation_rate, fixed_portion, prime_base_rate) ==
    [property_value |-> Num(property_value),
     down_payment_percent |-> Num(down_payment_percent),
     fixed_rate |-> Num(fixed_rate),
     variable_rate |-> Num(variable_rate),
     loan_term_years |-> loan_term_years,
     rental_income |-> Num(rental_income),
     annual_appreciation_rate |-> Num(annual_appreciation_rate),
     years |-> years,
     central_rent |-> Num(central_rent),
     monthly_savings |-> Num(monthly_savings),
     savings_return_rate |-> Num(savings_return_rate),
     inflation_rate |-> Num(inflation_rate),
     fixed_portion |-> Num(fixed_portion),
     prime_base_rate |-> Num(prime_base_rate)]

\* Projections on which every operation, the year-by-year sweeps included, is run.
\* A sweep asks the variable tranche for its payment at year -1, i.e. over
\* (term + 1) * 12 months, so these keep a one-year term, a variable monthly rate
\* of 1 and no inflation.  Zero property value, an appreciation of -100 % (directly
\* or as the g - 1 of -99 %), a zero fixed rate and a deflation that cancels the
\* variable rate (effective rate 0, horizon past the term) are the failing inputs.
Configs ==
    { Params(100, dp, 600, 1200, 1, 10, g, y, 20, 5, 100, 0, 40, 600) :
        dp \in {10, 20, 25}, g \in {-100, -99, 0}, y \in 0..MaxYears }
    \cup
    { Params(0, 25, 1200, 1200, 1, 10, 0, y, 20, 5, 100, 0, 40, 600) : y \in 1..MaxYears }
    \cup
    { Params(100, 25, 0, 1200, 1, 10, 0, 1, 20, 5, 100, 0, 40, 600) }
    \cup
    { Params(100, 25, 600, 1200, 1, 10, 0, y, 20, 5, 100, -1200, 40, 600) : y \in 2..MaxYears }

\* Projections for the direct scenario calls and the risk sweep only (horizon of at
\* least one year): inflation (with a fixed monthly rate equal to the effective
\* variable one, so that the two payments share a denominator), a two-year term and
\* an all-fixed mortgage fit here, and so does a deflation of 100 % a year past
\* the end of the term.
ScenarioConfigs ==
    { Params(100, dp, m[1], 1200, 1, ri, g, y, 20, 5, 100, m[2], fp, 600) :
        dp \in {10, 25}, ri \in {10, 100}, g \in {-99, 0}, y \in 1..MaxYears,
        m \in {<<600, 0>>, <<2400, 1200>>}, fp \in {40, 100} }
    \cup
    { Params(100, dp, 1200, 1200, 2, 10, g, y, 20, 0, 100, 0, 40, 600) :
        dp \in {10, 20, 25}, g \in {0, 100}, y \in 1..MaxYears }
    \cup
    { Params(100, 25, 600, 1200, 1, 10, 0, y, 20, 5, 100, -100, 40, 600) :
        y \in 2..MaxYears }

\* Projections for the rent scenario alone, which queries no tranche: a horizon of
\* 0 years fits together with inflation.
RentConfigs ==
    { Params(100, dp, 1200, 1200, 1, 10, 0, y, cr, ms, 100, i, 40, 600) :
        dp \in {10, 25}, y \in 0..MaxYears, cr \in {0, 20}, ms \in {0, 5},
        i \in {0, 600, 1200} }

\* Projections that differ in prime_base_rate (no inflation, a horizon of at least
\* one year).
PrimeRates == {Num(0), Num(600), Num(1200)}

PrimeConfigs ==
    { Params(100, dp, 1200, 1200, 1, 10, g, y, 20, 5, 100, 0, fp, 600) :
        dp \in {10, 25}, g \in {-99, 0}, y \in 1..MaxYears, fp \in {40, 100} }

\* property_value_change of a direct call: the default and the sweep's two shocks.
ValueChanges == {Num(0), Num(-20), Num(5)}

\* Tranches queried on their own, each with the market its queries pass.
LoanCase(loan_amount, interest_rate, term_years, is_fixed, prime_spread, inflation_rate, prime_base_rate) ==
    [loan_amount |-> Num(loan_amount), interest_rate |-> Num(interest_rate),
     term_years |-> term_years, is_fixed |-> is_fixed, prime_spread |-> Num(prime_spread),
     inflation_rate |-> Num(inflation_rate), prime_base_rate |-> Num(prime_base_rate)]

LoanCases ==
    { LoanCase(la, ir, 1, fx, m[1], m[2], 600) :
        la \in {60, 100}, ir \in {600, 1200, 2400}, fx \in BOOLEAN,
        m \in {<<0, -600>>, <<0, 0>>, <<600, 0>>, <<600, 1200>>} }
    \cup
    { LoanCase(la, 1200, 2, fx, 600, 0, 600) : la \in {60, 100}, fx \in BOOLEAN }
    \cup
    { LoanCase(100, 0, 1, TRUE, 0, 0, 600) }

-----------------------------------------------------------------------------
(* The projection: construction, then calls in any order.                  *)

\* The instance exists and is still reachable: the constructor did not raise, and
\* the instance is not the local one of a finished Streamlit handler.
Constructed ==
    /\ ~(op = "__init__" /\ exc # "none")
    /\ op # "streamlit_main"

NoLoan ==
    /\ loan = NoValue
    /\ market = NoValue
    /\ payments = {}
    /\ balances = {}

\* Nobody steps through a sweep: every call runs from its first line to its last.
NoCallers == callers = NoValue

InitWith(configs) ==
    \E p \in configs :
        LET self == RealEstateInvestmentAnalysis(p)
        IN  /\ analysis = self
            /\ op = "__init__"
            /\ args = p
            /\ exc = IF InitRaises(self) THEN "ZeroDivisionError" ELSE "none"
            /\ ret = NoValue
            /\ calls = 0
            /\ NoLoan
            /\ NoCallers

Init == InitWith(Configs)

\* What every call records: its name, arguments, exception or return value.
Called(name, arguments, exception, value) ==
    /\ op' = name
    /\ args' = arguments
    /\ exc' = exception
    /\ ret' = IF exception = "none" THEN value ELSE NoValue
    /\ calls' = calls + 1
    /\ UNCHANGED <<loan, market, payments, balances, callers>>

\* calculate_buy_scenario storing the shocked price in the instance.
CalculateBuyKeepingShock ==
    /\ Constructed
    /\ calls < MaxCalls
    /\ \E property_value_change \in ValueChanges, show_real_values \in BOOLEAN :
           \E result \in {calculate_buy_scenario(analysis, property_value_change,
                                                   show_real_values)} :
               /\ Called("calculate_buy_scenario",
                         [property_value_change |-> property_value_change,
                          show_real_values |-> show_real_values],
                         result.exc, result)
               /\ analysis' =
                      [analysis EXCEPT !.property_value =
                           RMul(@, RAdd(One, RDiv(property_value_change,
                                                  Num(PercentBase))))]

CalculateBuy ==
    /\ Constructed
    /\ calls < MaxCalls
    /\ \E property_value_change \in ValueChanges, show_real_values \in BOOLEAN :
           \E result \in {calculate_buy_scenario(analysis, property_value_change,
                                                   show_real_values)} :
               /\ Called("calculate_buy_scenario",
                         [property_value_change |-> property_value_change,
                          show_real_values |-> show_real_values],
                         result.exc, result)
               /\ UNCHANGED analysis

CalculateRent ==
    /\ Constructed
    /\ calls < MaxCalls
    /\ \E show_real_values \in BOOLEAN :
           \E result \in {calculate_rent_scenario(analysis, show_real_values)} :
               /\ Called("calculate_rent_scenario",
                         [show_real_values |-> show_real_values],
                         result.exc, result)
               /\ UNCHANGED analysis

GenerateRiskScenarios ==
    /\ Constructed
    /\ calls < MaxCalls
    /\ \E show_real_values \in BOOLEAN :
           \E out \in {generate_risk_scenarios(analysis, show_real_values)} :
               /\ Called("generate_risk_scenarios",
                         [show_real_values |-> show_real_values],
                         out.exc, out.value)
               /\ analysis' = out.analysis

GenerateYearlyComparison ==
    /\ Constructed
    /\ calls < MaxCalls
    /\ \E show_real_values \in BOOLEAN :
           \E out \in {generate_yearly_comparison(analysis, show_real_values)} :
               /\ Called("generate_yearly_comparison",
                         [show_real_values |-> show_real_values],
                         out.exc, out.value)
               /\ analysis' = out.analysis

\* The Streamlit button handler, on the instance its first line has just built from
\* the page's inputs (the years slider starts at 1; the term slider's 5..30 years
\* are scaled down to the short terms of Configs).  The instance is local to the
\* handler: analysis' is that instance as the handler leaves it.
StreamlitMain ==
    /\ op = "__init__"
    /\ exc = "none"
    /\ analysis.years >= 1
    /\ \E out \in {streamlit_main(analysis)} :
           /\ Called("streamlit_main", args, out.exc, out.value)
           /\ analysis' = out.analysis

Next ==
    \/ CalculateBuy
    \/ CalculateRent
    \/ GenerateRiskScenarios
    \/ GenerateYearlyComparison
    \/ StreamlitMain

Spec == Init /\ [][Next]_vars

\* Direct scenario calls and the risk sweep, on the wider set of projections.
InitScenario == InitWith(ScenarioConfigs)

NextScenario ==
    \/ CalculateBuy
    \/ CalculateRent
    \/ GenerateRiskScenarios

SpecScenario == InitScenario /\ [][NextScenario]_vars

\* The rent scenario on its own.
InitRent == InitWith(RentConfigs)

NextRent == CalculateRent

SpecRent == InitRent /\ [][NextRent]_vars

\* The scenarios and the risk sweep under each prime base rate.
InitPrime ==
    \E p \in PrimeConfigs, prime_base_rate \in PrimeRates :
        InitWith({[p EXCEPT !.prime_base_rate = prime_base_rate]})

SpecPrime == InitPrime /\ [][NextScenario]_vars

-----------------------------------------------------------------------------
(* One tranche queried on its own.                                         *)

InitLoan ==
    \E c \in LoanCases :
        /\ loan = MortgageLoan(c.loan_amount, c.interest_rate, c.term_years,
                               c.is_fixed, c.prime_spread)
        /\ market = [inflation_rate |-> c.inflation_rate,
                     prime_base_rate |-> c.prime_base_rate]
        /\ payments = {}
        /\ balances = {}
        /\ analysis = NoValue
        /\ op = "MortgageLoan"
        /\ args = c
        /\ exc = IF IsNaR(loan.monthly_payment) THEN "ZeroDivisionError" ELSE "none"
        /\ ret = NoValue
        /\ calls = 0
        /\ NoCallers

\* The years a query is made at: 0 .. term_years and a little beyond.
QueryYears == 0..(loan.term_years + MaxPastTerm)

Answer(year, value) ==
    [year |-> year,
     exc |-> IF IsNaR(value) THEN "ZeroDivisionError" ELSE "none",
     value |-> value]

QueryPayment ==
    /\ exc = "none"
    /\ \E year \in QueryYears :
           /\ payments' = payments \cup
                  {Answer(year, get_payment_at_year(loan, year, market.inflation_rate,
                                                    market.prime_base_rate))}
           /\ UNCHANGED <<analysis, op, args, exc, ret, calls, loan, market, balances, callers>>

QueryBalance ==
    /\ exc = "none"
    /\ \E year \in QueryYears :
           /\ balances' = balances \cup
                  {Answer(year, Loan_calculate_remaining_balance(loan, year))}
           /\ UNCHANGED <<analysis, op, args, exc, ret, calls, loan, market, payments, callers>>

NextLoan ==
    \/ QueryPayment
    \/ QueryBalance

SpecLoan == InitLoan /\ [][NextLoan]_vars

-----------------------------------------------------------------------------
(* Two callers stepping through the sweeps on one shared instance.         *)

Callers == {"first", "second"}

\* The instances the two callers share: valid inputs, and one on which every buy
\* scenario raises.
RaceConfigs ==
    { Params(100, 25, 600, 1200, 1, 10, g, y, 20, 5, 100, 0, 40, 600) :
        g \in {0, 1}, y \in 1..MaxYears }
    \cup
    { Params(0, 25, 600, 1200, 1, 10, 0, 1, 20, 5, 100, 0, 40, 600) }

\* The locals of a caller: where it stands (pc), the sweep it runs, its loop
\* index and bound, the rate its scenario list was built from, the two saved
\* originals; and two records of what happened, for the properties: whether it
\* entered while the other caller was inside a sweep, and whether one of its
\* scenarios was computed on values that are not its own.
Idle ==
    [pc |-> "idle", sweep |-> "none", i |-> 0, horizon |-> 0,
     base_appreciation |-> Zero, original_appreciation |-> Zero, original_years |-> 0,
     overlapped |-> FALSE, foreign |-> FALSE]

InitRace ==
    \E p \in RaceConfigs :
        LET self == RealEstateInvestmentAnalysis(p)
        IN  /\ analysis = self
            /\ op = "__init__"
            /\ args = p
            /\ exc = IF InitRaises(self) THEN "ZeroDivisionError" ELSE "none"
            /\ ret = NoValue
            /\ calls = 0
            /\ NoLoan
            /\ callers = [c \in Callers |-> Idle]

InSweep(c) == callers[c].pc \notin {"idle", "done", "raised"}

IsYearly(c) == callers[c].sweep = "generate_yearly_comparison"

\* The scenario a caller of the risk sweep is at.
ScenarioOf(c) == RiskScenarioList(callers[c].base_appreciation)[callers[c].i]

\* The instance holds what the caller's iteration holds when the caller runs
\* alone: its own year and the instance's rate in a year-by-year sweep, its own
\* scenario's rate and the instance's horizon in a risk sweep.
OwnValues(c) ==
    IF IsYearly(c)
    THEN /\ analysis.years = callers[c].i
         /\ analysis.annual_appreciation_rate = args.annual_appreciation_rate
    ELSE /\ analysis.years = args.years
         /\ analysis.annual_appreciation_rate
                = RiskScenarioList(args.annual_appreciation_rate)[callers[c].i].growth_rate

\* One step of caller c: its locals become `locals`, the instance becomes `self`.
SweepStep(c, locals, self) ==
    /\ callers' = [callers EXCEPT ![c] = locals]
    /\ analysis' = self
    /\ UNCHANGED <<op, args, exc, ret, calls, loan, market, payments, balances>>

\* The call begins.  Year-by-year sweep: range(analysis.years + 1) is evaluated
\* (line 362).  Risk sweep: the scenario list is built from the rate and the rate
\* is saved (lines 255-285).
SweepEnter(c) ==
    /\ exc = "none"
    /\ callers[c].pc = "idle"
    /\ \E sweep \in {"generate_yearly_comparison", "generate_risk_scenarios"} :
           SweepStep(c,
               [callers[c] EXCEPT
                   !.sweep = sweep,
                   !.horizon = analysis.years,
                   !.base_appreciation = analysis.annual_appreciation_rate,
                   !.original_appreciation = analysis.annual_appreciation_rate,
                   !.i = IF sweep = "generate_yearly_comparison" THEN 0 ELSE 1,
                   !.pc = IF sweep = "generate_yearly_comparison" THEN "save" ELSE "overwrite",
                   !.overlapped = \E d \in Callers \ {c} : InSweep(d)],
               analysis)

\* original_years = analysis.years (line 334).
SweepSave(c) ==
    /\ callers[c].pc = "save"
    /\ SweepStep(c, [callers[c] EXCEPT !.original_years = analysis.years,
                                       !.pc = "overwrite"],
                 analysis)

\* analysis.years = year (line 335); self.annual_appreciation_rate =
\* scenario['growth_rate'] (line 288).
SweepOverwrite(c) ==
    /\ callers[c].pc = "overwrite"
    /\ SweepStep(c, [callers[c] EXCEPT !.pc = "compute"],
                 IF IsYearly(c)
                 THEN [analysis EXCEPT !.years = callers[c].i]
                 ELSE [analysis EXCEPT !.annual_appreciation_rate = ScenarioOf(c).growth_rate])

\* The scenario calls of one iteration (lines 338-339; line 289), on the instance
\* as it is now.  An exception ends the call at once.
SweepRaises(c) ==
    IF IsYearly(c)
    THEN \/ calculate_buy_scenario(analysis, Num(0), FALSE).exc # "none"
         \/ calculate_rent_scenario(analysis, FALSE).exc # "none"
    ELSE calculate_buy_scenario(analysis, ScenarioOf(c).value_change, FALSE).exc # "none"

SweepCompute(c) ==
    /\ callers[c].pc = "compute"
    /\ \E raises \in {SweepRaises(c)} :
           SweepStep(c,
               [callers[c] EXCEPT
                   !.foreign = @ \/ ~OwnValues(c),
                   !.i = IF raises \/ IsYearly(c) THEN @ ELSE @ + 1,
                   !.pc = IF raises THEN "raised"
                          ELSE IF IsYearly(c) THEN "restore"
                          ELSE IF callers[c].i = Len(RiskScenarioList(Zero)) THEN "restore"
                          ELSE "overwrite"],
               analysis)

\* SweepRestore without the assignment.
SweepRestoreOmitted(c) ==
    /\ callers[c].pc = "restore"
    /\ SweepStep(c,
           [callers[c] EXCEPT
               !.i = IF IsYearly(c) THEN @ + 1 ELSE @,
               !.pc = IF IsYearly(c) /\ callers[c].i + 1 <= callers[c].horizon
                      THEN "save" ELSE "done"],
           analysis)

\* analysis.years = original_years, then the next year or the end of the loop
\* (lines 350, 362); self.annual_appreciation_rate = original_appreciation, then
\* the return (lines 299-300).
SweepRestore(c) ==
    /\ callers[c].pc = "restore"
    /\ SweepStep(c,
           [callers[c] EXCEPT
               !.i = IF IsYearly(c) THEN @ + 1 ELSE @,
               !.pc = IF IsYearly(c) /\ callers[c].i + 1 <= callers[c].horizon
                      THEN "save" ELSE "done"],
           IF IsYearly(c)
           THEN [analysis EXCEPT !.years = callers[c].original_years]
           ELSE [analysis EXCEPT
                    !.annual_appreciation_rate = callers[c].original_appreciation])

NextRace ==
    \/ \E c \in Callers : SweepEnter(c)
    \/ \E c \in Callers : SweepSave(c)
    \/ \E c \in Callers : SweepOverwrite(c)
    \/ \E c \in Callers : SweepCompute(c)
    \/ \E c \in Callers : SweepRestore(c)

SpecRace == InitRace /\ [][NextRace]_vars

-----------------------------------------------------------------------------
(* Year 0 of the year-by-year sweep in floating-point arithmetic.          *)

\* Python's floats are binary with a significand of fixed width, and every
\* operation rounds its exact result to the nearest such number (ties to even).
\* Here the significand has SignificandBits bits.
SignificandBits == 8

\* The integer nearest to the positive fraction x, ties to even.
NearestInteger(x) ==
    LET q == x[1] \div x[2]
        rem == x[1] % x[2]
    IN  IF 2 * rem > x[2] \/ (2 * rem = x[2] /\ q % 2 = 1) THEN q + 1 ELSE q

\* x * 2 ** e rounded, for a positive x: x is scaled into
\* [2 ** (bits - 1), 2 ** bits) and rounded to an integer there.
RECURSIVE FloatScale(_, _)
FloatScale(x, e) ==
    IF RGe(x, Num(IntPow(2, SignificandBits))) THEN FloatScale(RDiv(x, Num(2)), e + 1)
    ELSE IF RLt(x, Num(IntPow(2, SignificandBits - 1))) THEN FloatScale(RMul(x, Num(2)), e - 1)
    ELSE RMul(Num(NearestInteger(x)), RPow(Num(2), e))

FloatRound(x) ==
    IF IsNaR(x) THEN NaR
    ELSE IF x = Zero THEN Zero
    ELSE IF RLt(x, Zero) THEN RNeg(FloatScale(RNeg(x), 0))
    ELSE FloatScale(x, 0)

FloatAdd(x, y) == FloatRound(RAdd(x, y))
FloatSub(x, y) == FloatRound(RSub(x, y))
FloatMul(x, y) == FloatRound(RMul(x, y))
FloatDiv(x, y) == FloatRound(RDiv(x, y))
FloatPow(x, k) == FloatRound(RPow(x, k))

\* Line 72: down_payment.
FloatDownPayment(p) ==
    FloatMul(p.property_value, FloatDiv(p.down_payment_percent, Num(PercentBase)))

\* Lines 74-75: the two tranches of loan_amount.
FloatTranches(p, down_payment, loan_amount) ==
    [down_payment |-> down_payment,
     loan_amount |-> loan_amount,
     fixed_loan_amount |-> FloatMul(loan_amount, FloatDiv(p.fixed_portion, Num(PercentBase))),
     variable_loan_amount |->
         FloatMul(loan_amount,
                  FloatDiv(FloatSub(Num(PercentBase), p.fixed_portion), Num(PercentBase)))]

\* Lines 72-75: the amounts the constructor derives from its arguments p.
FloatAmounts(p) ==
    FloatTranches(p, FloatDownPayment(p), FloatSub(p.property_value, FloatDownPayment(p)))

\* Line 47: the balance after t of n payments at the monthly factor growth.
FloatAnnuityBalance(loan_amount, growth, n, t) ==
    IF t >= n THEN Zero
    ELSE FloatDiv(FloatMul(loan_amount, FloatSub(FloatPow(growth, n), FloatPow(growth, t))),
                  FloatSub(FloatPow(growth, n), One))

\* MortgageLoan._calculate_remaining_balance (lines 41-47) before the end of the
\* term.
FloatBalance(loan_amount, interest_rate, term_years, year) ==
    FloatAnnuityBalance(loan_amount,
                        FloatAdd(One, FloatDiv(FloatDiv(interest_rate, Num(MonthsPerYear)),
                                               Num(PercentBase))),
                        term_years * MonthsPerYear, year * MonthsPerYear)

\* Lines 120-130: the property's value, the debt and their difference.
FloatBuyResult(nominal_future_value, remaining_balance) ==
    [property_value |-> nominal_future_value,
     total_mortgage |-> remaining_balance,
     nav |-> FloatSub(nominal_future_value, remaining_balance)]

\* nominal_nav of calculate_buy_scenario (lines 119-130) at years = 0, where
\* (1 + annual_appreciation_rate / 100) ** 0 is 1.
FloatBuyNav(p, amounts) ==
    FloatBuyResult(FloatMul(FloatMul(p.property_value,
                                     FloatAdd(One, FloatDiv(Zero, Num(PercentBase)))),
                            One),
                   FloatAdd(FloatBalance(amounts.fixed_loan_amount, p.fixed_rate,
                                         p.loan_term_years, 0),
                            FloatBalance(amounts.variable_loan_amount, p.variable_rate,
                                         p.loan_term_years, 0)))

\* The nav of calculate_rent_scenario (lines 197-226) at years = 0: no savings
\* yet, and (1 + savings_return_rate / 100) ** 0 is 1.
FloatRentNav(amounts) ==
    FloatAdd(FloatMul(Zero, One), FloatMul(amounts.down_payment, One))

\* Lines 104-106 and 146: in real values a nav is divided by
\* (1 + inflation_rate / 100) ** 0, which is 1.
FloatShownNav(nav, show_real_values) ==
    IF show_real_values THEN FloatDiv(nav, One) ELSE nav

\* Lines 347-358: the row of the two scenarios' results.
FloatYearZeroRow(buy, buy_nav, rent_nav) ==
    [property_value |-> buy.property_value,
     total_mortgage |-> buy.total_mortgage,
     buy_nav |-> buy_nav,
     rent_nav |-> rent_nav,
     nav_difference |-> FloatSub(buy_nav, rent_nav)]

\* The results shown for year 0, from the buy scenario's result and the rent
\* scenario's nav.
FloatYearZeroShown(buy, rent_nav, show_real_values) ==
    FloatYearZeroRow(buy, FloatShownNav(buy.nav, show_real_values),
                     FloatShownNav(rent_nav, show_real_values))

\* get_year_data(0) (lines 331-358).
FloatYearZeroData(self, show_real_values) ==
    FloatYearZeroShown(FloatBuyNav(self.params, self.amounts), FloatRentNav(self.amounts),
                       show_real_values)

\* Valid inputs whose year-0 row is computed.
FloatConfigs ==
    { Params(pv, dp, 1200, 1200, 1, 10, 0, MaxYears, 20, 5, 100, 0, fp, 600) :
        pv \in {100, 120, 150, 200}, dp \in {10, 20, 25, 30, 40},
        fp \in {0, 30, 40, 70, 100} }

\* `analysis` holds the constructor's arguments and the amounts it derived.
InitFloat ==
    \E p \in FloatConfigs :
        /\ analysis = [params |-> p, amounts |-> FloatAmounts(p)]
        /\ op = "__init__"
        /\ args = p
        /\ exc = "none"
        /\ ret = NoValue
        /\ calls = 0
        /\ NoLoan
        /\ NoCallers

\* The first iteration of the sweep: the row of year 0 and its class (lines
\* 362-364); `years` is overwritten and restored within the step.
GetYearZeroData ==
    /\ calls < MaxCalls
    /\ \E show_real_values \in BOOLEAN :
           \E data \in {FloatYearZeroData(analysis, show_real_values)} :
               /\ Called("get_year_data", [year |-> 0, show_real_values |-> show_real_values],
                         "none", YearRow(0, data))
               /\ UNCHANGED analysis

NextFloat == GetYearZeroData

SpecFloat == InitFloat /\ [][NextFloat]_vars

-----------------------------------------------------------------------------
(* Properties of the projection's sweeps.                                  *)

\* The step is a call of the operation `name`.
CallOf(name) == op' = name /\ calls' = calls + 1

\* The growth rates of the four rows a risk sweep returned.
GrowthRates(rows) == [i \in 1..Len(rows) |-> rows[i].Growth_Rate]

\* C1: when generate_risk_scenarios returns normally, annual_appreciation_rate is
\* what it was before the call, whatever the starting rate and however many calls
\* came before; its four variants are g, g - 1, g - 1, g + 1 for that rate g, so a
\* call repeated after a normal return derives the same four rates again.
C1_RateKeptByRiskSweep ==
    [][(CallOf("generate_risk_scenarios") /\ exc' = "none")
        => /\ analysis'.annual_appreciation_rate = analysis.annual_appreciation_rate
           /\ GrowthRates(ret') =
                  <<analysis.annual_appreciation_rate,
                    RSub(analysis.annual_appreciation_rate, One),
                    RSub(analysis.annual_appreciation_rate, One),
                    RAdd(analysis.annual_appreciation_rate, One)>>
           /\ (op = "generate_risk_scenarios" /\ exc = "none")
                  => GrowthRates(ret') = GrowthRates(ret)]_vars

\* A risk sweep has returned normally, after an earlier call, on a projection whose
\* rate is not the round one.
C1_Witness ==
    /\ op = "generate_risk_scenarios"
    /\ exc = "none"
    /\ calls >= 2
    /\ analysis.annual_appreciation_rate = Num(-99)
    /\ Len(ret) = 4

\* C2: when the buy computation of one of the four variants fails,
\* generate_risk_scenarios has put annual_appreciation_rate back to its value
\* before the call by the time the failure reaches the caller.
C2_RateRestoredOnFailure ==
    [][(CallOf("generate_risk_scenarios") /\ exc' # "none")
        => analysis'.annual_appreciation_rate = analysis.annual_appreciation_rate]_vars

\* C3: no exit from a year-by-year sweep, normal or by an exception of either
\* scenario, leaves `years` different from its value on entry.
C3_YearsRestoredOnEveryExit ==
    [][(CallOf("generate_yearly_comparison") \/ CallOf("streamlit_main"))
        => analysis'.years = analysis.years]_vars

\* The constructor arguments an instance was built from.
ParamsOf(self) ==
    [property_value |-> self.property_value,
     down_payment_percent |-> self.down_payment_percent,
     fixed_rate |-> self.fixed_rate,
     variable_rate |-> self.variable_rate,
     loan_term_years |-> self.loan_term_years,
     rental_income |-> self.rental_income,
     annual_appreciation_rate |-> self.annual_appreciation_rate,
     years |-> self.years,
     central_rent |-> self.central_rent,
     monthly_savings |-> self.monthly_savings,
     savings_return_rate |-> self.savings_return_rate,
     inflation_rate |-> self.inflation_rate,
     fixed_portion |-> self.fixed_portion,
     prime_base_rate |-> self.prime_base_rate]

\* Valid inputs of a sweep: a positive property value, percentages within 0..100,
\* positive rates and term, a horizon of at least 0, an appreciation and a savings
\* return above -100 % and no deflation.
ValidInputs(self) ==
    /\ RGt(self.property_value, Zero)
    /\ RGe(self.down_payment_percent, Zero)
    /\ RLe(self.down_payment_percent, Num(PercentBase))
    /\ RGe(self.fixed_portion, Zero)
    /\ RLe(self.fixed_portion, Num(PercentBase))
    /\ RGt(self.fixed_rate, Zero)
    /\ RGt(self.variable_rate, Zero)
    /\ self.loan_term_years >= 1
    /\ self.years >= 0
    /\ RGt(self.annual_appreciation_rate, Num(-PercentBase))
    /\ RGt(self.savings_return_rate, Num(-PercentBase))
    /\ RGe(self.inflation_rate, Zero)

\* What direct calls return on a projection built with `years` = year.
DirectRow(self, year, show_real_values) ==
    LET fresh == RealEstateInvestmentAnalysis([ParamsOf(self) EXCEPT !.years = year])
        buy == calculate_buy_scenario(fresh, Num(0), show_real_values)
        rent == calculate_rent_scenario(fresh, show_real_values)
    IN  [raised |-> buy.exc # "none" \/ rent.exc # "none",
         property_value |-> buy.property_value,
         buy_nav |-> buy.nav,
         rent_nav |-> rent.nav,
         nav_difference |-> RSub(buy.nav, rent.nav)]

\* The rows of a sweep over 0..self.years agree with the direct calls.
SweepAgrees(self, rows, show_real_values) ==
    /\ Len(rows) = self.years + 1
    /\ \A year \in 0..self.years :
           LET row == rows[year + 1]
               direct == DirectRow(self, year, show_real_values)
           IN  /\ row.year = year
               /\ ~direct.raised
               /\ row.data.property_value = direct.property_value
               /\ row.data.buy_nav = direct.buy_nav
               /\ row.data.rent_nav = direct.rent_nav
               /\ row.data.nav_difference = direct.nav_difference

-----------------------------------------------------------------------------
(* Properties of a tranche.                                                *)

\* C5: a fixed-rate tranche answers get_payment_at_year with its construction-time
\* monthly payment at every year 0 <= year < term_years, and with 0 at
\* year = term_years.
C5_FixedPaymentUntilTermThenZero ==
    (loan # NoValue /\ loan.is_fixed)
        => \A a \in payments :
               /\ a.exc = "none"
               /\ (0 <= a.year /\ a.year < loan.term_years) => a.value = loan.monthly_payment
               /\ (a.year = loan.term_years) => a.value = Zero

\* The tranche has a positive principal, rate and term.
PositiveLoan ==
    /\ loan # NoValue
    /\ RGt(loan.loan_amount, Zero)
    /\ RGt(loan.base_interest_rate, Zero)
    /\ loan.term_years >= 1

\* C6: for a tranche of positive principal, rate and term the remaining balance is
\* the principal at elapsed year 0, is 0 at year term_years and at any later year,
\* and never increases from one year to a later one.
C6_BalanceFromPrincipalDownToZero ==
    PositiveLoan
        => /\ \A a \in balances :
                  /\ a.exc = "none"
                  /\ (a.year = 0) => a.value = loan.loan_amount
                  /\ (a.year >= loan.term_years) => a.value = Zero
           /\ \A a, b \in balances : (a.year <= b.year) => RGe(a.value, b.value)

\* The balance of a two-year tranche has been asked at its start, after one year
\* (strictly between the two) and at the end of the term.
C6_Witness ==
    /\ PositiveLoan
    /\ loan.term_years = 2
    /\ \E a, b, c \in balances :
           /\ a.year = 0 /\ b.year = 1 /\ c.year = 2
           /\ RGt(a.value, b.value) /\ RGt(b.value, c.value)

\* The monthly rate a variable tranche is re-amortized at.
EffectiveRate ==
    MonthlyRate(RAdd(RAdd(market.prime_base_rate, market.inflation_rate), loan.prime_spread))

\* What is left of `balance` after `months` months of interest at `rate`, each
\* followed by the payment `payment`.
RECURSIVE PayDown(_, _, _, _)
PayDown(balance, rate, payment, months) ==
    IF months = 0 THEN balance
    ELSE LET next == RSub(RMul(balance, RAdd(One, rate)), payment)
         IN  IF IsNaR(next) THEN NaR ELSE PayDown(next, rate, payment, months - 1)

\* C7: a variable-rate tranche answers get_payment_at_year with exactly 0, and
\* without dividing (no ZeroDivisionError even at an effective rate of 0), whenever
\* (term_years - year) * 12 <= 0, year = term_years included; at a year before
\* term_years and a positive effective rate its answer is the payment that pays
\* the balance remaining at that year down to 0 over the remaining months at the
\* effective rate.
C7_VariablePaymentReamortized ==
    (loan # NoValue /\ ~loan.is_fixed /\ exc = "none")
        => \A a \in payments :
               /\ ((loan.term_years - a.year) * MonthsPerYear <= 0)
                      => (a.exc = "none" /\ a.value = Zero)
               /\ (a.year < loan.term_years /\ RGt(EffectiveRate, Zero))
                      => /\ a.exc = "none"
                         /\ PayDown(Loan_calculate_remaining_balance(loan, a.year),
                                    EffectiveRate, a.value,
                                    (loan.term_years - a.year) * MonthsPerYear) = Zero

\* A variable tranche whose effective rate is 0 has been asked at year 0, where the
\* re-amortization divides by zero, and at year = term_years, where it answers 0.
C7_Witness ==
    /\ loan # NoValue
    /\ ~loan.is_fixed
    /\ EffectiveRate = Zero
    /\ \E a, b \in payments :
           /\ a.year = 0 /\ a.exc = "ZeroDivisionError"
           /\ b.year = loan.term_years /\ b.exc = "none" /\ b.value = Zero

-----------------------------------------------------------------------------
(* Properties of the two scenarios.                                        *)

\* The last call was a scenario method and it returned.
BuyReturned == op = "calculate_buy_scenario" /\ exc = "none"
RentReturned == op = "calculate_rent_scenario" /\ exc = "none"

\* C8: the total_monthly_cashflow that calculate_buy_scenario and
\* calculate_rent_scenario return is <= 0, in nominal and in real values, whatever
\* the sign of monthly_net_income (inputs: rents and savings >= 0, no deflation).
C8_CashflowNeverPositive ==
    (BuyReturned \/ RentReturned) => RLe(ret.total_monthly_cashflow, Zero)

\* A buy scenario in real values whose monthly net income is a loss larger than the
\* central rent.
C8_Witness ==
    /\ BuyReturned
    /\ args.show_real_values
    /\ RGt(analysis.inflation_rate, Zero)
    /\ RLt(RAdd(ret.monthly_net_income, ret.central_rent), Zero)
    /\ RLt(ret.total_monthly_cashflow, Zero)

\* current_value * (1 + annual_appreciation_rate / 100) ** years of a buy call.
NominalFutureValue(self, property_value_change) ==
    RMul(RMul(self.property_value,
              RDiv(RAdd(Num(PercentBase), property_value_change), Num(PercentBase))),
         RPow(RDiv(RAdd(Num(PercentBase), self.annual_appreciation_rate), Num(PercentBase)),
              self.years))

\* C9: the default_risk of a buy scenario is "High" exactly when ltv > 90, "Medium"
\* exactly when 80 < ltv <= 90 and "Low" exactly when ltv <= 80 (so ltv = 80 is
\* "Low" and ltv = 90 is "Medium"), where ltv is remaining_balance /
\* nominal_future_value * 100.
C9_RiskTierFromLtv ==
    BuyReturned
        => /\ ret.ltv = RMul(RDiv(ret.remaining_balance,
                                  NominalFutureValue(analysis, args.property_value_change)),
                             Num(PercentBase))
           /\ (ret.default_risk = "High") <=> RGt(ret.ltv, Num(HighLtv))
           /\ (ret.default_risk = "Medium")
                  <=> (RGt(ret.ltv, Num(MediumLtv)) /\ RLe(ret.ltv, Num(HighLtv)))
           /\ (ret.default_risk = "Low") <=> RLe(ret.ltv, Num(MediumLtv))

\* A buy scenario whose ltv is exactly 90 and whose tier is "Medium".
C9_Witness ==
    /\ BuyReturned
    /\ ret.ltv = Num(HighLtv)
    /\ ret.default_risk = "Medium"

\* (1 + inflation_rate / 100) ** years.
Deflator(self) ==
    RPow(RDiv(RAdd(Num(PercentBase), self.inflation_rate), Num(PercentBase)), self.years)

BuyMetrics ==
    {"property_value", "nav", "mortgage_payment", "rental_income", "monthly_net_income",
     "central_rent", "total_monthly_cashflow"}

RentMetrics ==
    {"future_monthly_savings", "future_down_payment", "nav", "monthly_rent",
     "monthly_savings", "total_monthly_cashflow"}

\* C10: every monetary metric that calculate_buy_scenario or calculate_rent_scenario
\* returns with show_real_values = true is the value the same call returns with
\* show_real_values = false, divided by (1 + inflation_rate / 100) ** years;
\* remaining_balance is returned the same under both settings.
C10_RealIsNominalDeflated ==
    /\ (BuyReturned /\ args.show_real_values)
           => LET nominal == calculate_buy_scenario(analysis, args.property_value_change,
                                                    FALSE)
              IN  /\ nominal.exc = "none"
                  /\ \A m \in BuyMetrics : ret[m] = RDiv(nominal[m], Deflator(analysis))
                  /\ ret.remaining_balance = nominal.remaining_balance
    /\ (RentReturned /\ args.show_real_values)
           => LET nominal == calculate_rent_scenario(analysis, FALSE)
              IN  /\ nominal.exc = "none"
                  /\ \A m \in RentMetrics : ret[m] = RDiv(nominal[m], Deflator(analysis))

\* A buy scenario in real values under inflation, over two years or more, with a
\* mortgage still to pay and a monthly net income that is not zero.
C10_Witness ==
    /\ BuyReturned
    /\ args.show_real_values
    /\ RGt(analysis.inflation_rate, Zero)
    /\ analysis.years >= 2
    /\ RGt(ret.mortgage_payment, Zero)
    /\ ret.monthly_net_income # Zero

-----------------------------------------------------------------------------
(* Input checks and hidden state.                                          *)

\* The invariants stated for the inputs: a positive property value, no negative
\* principal, a term of at least one year.
StatedInvariants(self) ==
    /\ RGt(self.property_value, Zero)
    /\ RGe(self.fixed_loan_amount, Zero)
    /\ RGe(self.variable_loan_amount, Zero)
    /\ self.loan_term_years >= 1

\* C11: a construction or a scenario run whose input violates a stated invariant
\* (negative principal, non-positive term, property value <= 0) fails with an
\* InvalidParameter error: it neither returns a result nor raises a raw arithmetic
\* error.
C11_InvalidInputRejected ==
    (analysis # NoValue /\ ~StatedInvariants(analysis)) => exc = "InvalidParameter"

\* C12: calculate_buy_scenario and calculate_rent_scenario leave every field of the
\* projection and of its two tranches as it was (down_payment, loan_amount, the
\* two loan amounts and each tranche's monthly_payment included), so the same call
\* repeated with the same arguments returns the same result.
C12_ScenariosKeepNoState ==
    [][(CallOf("calculate_buy_scenario") \/ CallOf("calculate_rent_scenario"))
        => /\ analysis' = analysis
           /\ (op = op' /\ args = args') => (exc' = exc /\ ret' = ret)]_vars

\* A second call in a row has returned a buy scenario computed with a price shock.
C12_Witness ==
    /\ BuyReturned
    /\ calls >= 2
    /\ args.property_value_change = Num(-20)
    /\ RGt(ret.nav, Zero)

-----------------------------------------------------------------------------
(* Totality.                                                               *)

\* (1 + r) ** n - 1, the denominator of an annuity over n months at the annual rate.
AnnuityDenominator(rate, n) ==
    RSub(RPow(RAdd(One, MonthlyRate(rate)), n), One)

\* One of the annuity formulas a buy call of `self` evaluates has the denominator 0:
\* the two construction-time payments, the two balances, or the re-amortization
\* of the variable tranche at year years - 1.
AnnuityDenominatorZero(self) ==
    \/ AnnuityDenominator(self.fixed_rate, self.loan_term_years * MonthsPerYear) = Zero
    \/ AnnuityDenominator(self.variable_rate, self.loan_term_years * MonthsPerYear) = Zero
    \/ /\ (self.loan_term_years - (self.years - 1)) * MonthsPerYear > 0
       /\ AnnuityDenominator(RAdd(self.variable_rate, self.inflation_rate),
                             (self.loan_term_years - (self.years - 1)) * MonthsPerYear) = Zero

\* C14: the constructors and the scenario methods raise only a division by zero,
\* and only when (1 + r) ** n - 1 is 0 in an annuity formula or when
\* nominal_future_value is 0 in the LTV; on every other input they complete, at
\* every horizon.
C14_OnlyTwoFailures ==
    (op \in {"__init__", "calculate_buy_scenario", "calculate_rent_scenario"} /\ exc # "none")
        => \/ AnnuityDenominatorZero(analysis)
           \/ /\ op = "calculate_buy_scenario"
              /\ NominalFutureValue(analysis, args.property_value_change) = Zero

-----------------------------------------------------------------------------
(* The rows of the risk sweep.                                             *)

\* The four variants: name, price shock in percent, change of the growth rate in
\* percentage points.
RiskVariants ==
    <<[name |-> "Base Case", shock |-> 0, growth |-> 0],
      [name |-> "Market Crash", shock |-> -20, growth |-> -1],
      [name |-> "Stagnant Market", shock |-> 0, growth |-> -1],
      [name |-> "Strong Market", shock |-> 5, growth |-> 1]>>

\* The buy scenario of a projection built like `self` but growing at `rate`.
VariantBuy(self, rate, shock, show_real_values) ==
    calculate_buy_scenario(
        RealEstateInvestmentAnalysis([ParamsOf(self) EXCEPT !.annual_appreciation_rate = rate]),
        Num(shock), show_real_values)

\* Row i carries the name, the property value, the net asset value and the risk
\* level of variant i.
RiskRowIs(self, row, variant, show_real_values) ==
    LET rate == RAdd(self.annual_appreciation_rate, Num(variant.growth))
        direct == VariantBuy(self, rate, variant.shock, show_real_values)
    IN  /\ direct.exc = "none"
        /\ row.Market_Scenario = variant.name
        /\ row.Growth_Rate = rate
        /\ row.Final_Property_Value = direct.property_value
        /\ row.Net_Asset_Value = direct.nav
        /\ row.Risk_Level = direct.default_risk

\* C15: a risk sweep that returns has evaluated exactly four variants, in this
\* order: Base Case (shock 0, rate g), Market Crash (shock -20, rate g - 1),
\* Stagnant Market (shock 0, rate g - 1), Strong Market (shock +5, rate g + 1),
\* g being annual_appreciation_rate; it returns one row per variant, in the same
\* order, with that variant's property value, net asset value and risk level.
C15_FourVariantsInOrder ==
    [][(CallOf("generate_risk_scenarios") /\ exc' = "none")
        => /\ Len(ret') = Len(RiskVariants)
           /\ \A i \in 1..Len(RiskVariants) :
                  RiskRowIs(analysis, ret'[i], RiskVariants[i],
                            args'.show_real_values)]_vars

\* A risk sweep has returned four rows whose property values all differ and whose
\* risk levels are not all the same.
C15_Witness ==
    /\ op = "generate_risk_scenarios"
    /\ exc = "none"
    /\ Len(ret) = 4
    /\ \A i, j \in 1..4 : (i # j) => ret[i].Final_Property_Value # ret[j].Final_Property_Value
    /\ \E i, j \in 1..4 : ret[i].Risk_Level # ret[j].Risk_Level

-----------------------------------------------------------------------------
(* Amortization round trip.                                                *)

\* The principal parts (payment minus the interest on the running balance) of
\* `months` monthly payments, starting from `balance`.
RECURSIVE PrincipalRepaid(_, _, _, _)
PrincipalRepaid(balance, rate, payment, months) ==
    IF months = 0 THEN Zero
    ELSE LET part == RSub(payment, RMul(rate, balance))
             next == RSub(balance, part)
         IN  IF IsNaR(next) THEN NaR
             ELSE RAdd(part, PrincipalRepaid(next, rate, payment, months - 1))

\* The principal repaid month by month over the years 0..year - 1, each year
\* starting from the balance the tranche reports for it.
RECURSIVE ScheduleRepaid(_, _)
ScheduleRepaid(self, year) ==
    IF year = 0 THEN Zero
    ELSE LET sofar == ScheduleRepaid(self, year - 1)
         IN  IF IsNaR(sofar) THEN NaR
             ELSE RAdd(sofar,
                       PrincipalRepaid(Loan_calculate_remaining_balance(self, year - 1),
                                       MonthlyRate(self.base_interest_rate),
                                       self.monthly_payment, MonthsPerYear))

\* One term per year: the payment minus the interest on the balance remaining at
\* that year, over the years 0..year - 1.
RECURSIVE YearlySum(_, _)
YearlySum(self, year) ==
    IF year = 0 THEN Zero
    ELSE LET sofar == YearlySum(self, year - 1)
         IN  IF IsNaR(sofar) THEN NaR
             ELSE RAdd(sofar,
                       RSub(self.monthly_payment,
                            RMul(MonthlyRate(self.base_interest_rate),
                                 Loan_calculate_remaining_balance(self, year - 1))))

\* a is b within one part in a hundred of b.
WithinTolerance(a, b) ==
    RLe(RMul(RAbs(RSub(a, b)), Num(PercentBase)), RAbs(b))

\* C16 (as stated): the sum over y = 0..term_years - 1 of the payment minus the
\* interest on the balance remaining at year y reconstructs the principal within
\* tolerance, the payment and the interest being taken per month or per year.
C16_YearlySumReconstructsPrincipal ==
    PositiveLoan
        => \/ WithinTolerance(YearlySum(loan, loan.term_years), loan.loan_amount)
           \/ WithinTolerance(RMul(Num(MonthsPerYear), YearlySum(loan, loan.term_years)),
                              loan.loan_amount)

\* C16: for a tranche of positive principal, rate and term, twelve monthly
\* payments of the construction-time amount, each reduced by the interest on the
\* running balance, take the balance reported at year y to the balance reported
\* at year y + 1, for every y in 0..term_years - 1; the principal parts of all
\* term_years * 12 payments add up to the principal.
C16_MonthlyScheduleRepaysPrincipal ==
    PositiveLoan
        => /\ \A a, b \in balances :
                  (a.year >= 0 /\ b.year = a.year + 1 /\ b.year <= loan.term_years)
                      => PayDown(a.value, MonthlyRate(loan.base_interest_rate),
                                 loan.monthly_payment, MonthsPerYear) = b.value
           /\ ScheduleRepaid(loan, loan.term_years) = loan.loan_amount

\* The balance of a two-year tranche of positive principal and rate has been
\* reported at year 1 and at year 2, and its yearly sum falls short of the principal.
C16_Witness ==
    /\ PositiveLoan
    /\ loan.term_years = 2
    /\ \E a, b \in balances : a.year = 1 /\ b.year = 2 /\ RGt(a.value, Zero)
    /\ RLt(RMul(Num(MonthsPerYear), YearlySum(loan, loan.term_years)), loan.loan_amount)

-----------------------------------------------------------------------------
(* The elapsed years passed to the tranches.                               *)

\* The years a buy call on `self` passes to its tranches lie in 0..term_years.
QueriesInTerm(self) ==
    \A year \in {BalanceYear(self), PaymentYear(self)} :
        0 <= year /\ year <= self.loan_term_years

\* C17: every balance or payment query that calculate_buy_scenario issues to a
\* tranche, called directly, by the risk sweep or by a year-by-year sweep (which
\* calls it with years = 0, 1, ..., years), passes an elapsed year in
\* 0..term_years: never a negative year, never a year above term_years.
C17_QueriedYearsInTerm ==
    [][/\ (CallOf("calculate_buy_scenario") \/ CallOf("generate_risk_scenarios"))
            => QueriesInTerm(analysis)
       /\ (CallOf("generate_yearly_comparison") \/ CallOf("streamlit_main"))
            => \A year \in 0..analysis.years :
                   QueriesInTerm([analysis EXCEPT !.years = year])]_vars

-----------------------------------------------------------------------------
(* The final-year escalation at a horizon of 0 years.                      *)

\* The rent scenario returned on a horizon of 0 years under positive inflation.
RentAtYearZero ==
    /\ RentReturned
    /\ analysis.years = 0
    /\ RGt(analysis.inflation_rate, Zero)

\* C18 (as stated): at years = 0 with positive inflation the final-year multiplier
\* (1 + inflation / 100) ** (years - 1) is greater than 1.
C18_EscalationAboveOne ==
    RentAtYearZero => RGt(FinalYearEscalation(analysis), One)

\* C18: at years = 0 with positive inflation the final-year multiplier
\* (1 + inflation / 100) ** (years - 1) is 1 / (1 + inflation / 100), which is less
\* than 1; the monthly rent and the monthly savings returned are the central rent
\* and the monthly savings divided by 1 + inflation / 100.
C18_EscalationBelowOne ==
    RentAtYearZero
        => /\ FinalYearEscalation(analysis) = RDiv(One, InflationFactor(analysis))
           /\ RLt(FinalYearEscalation(analysis), One)
           /\ ret.monthly_rent = RDiv(analysis.central_rent, InflationFactor(analysis))
           /\ ret.monthly_savings = RDiv(analysis.monthly_savings, InflationFactor(analysis))

\* A rent scenario at years = 0 under inflation returned a monthly rent below the
\* central rent and monthly savings below the savings put in.
C18_Witness ==
    /\ RentAtYearZero
    /\ RLt(ret.monthly_rent, analysis.central_rent)
    /\ RLt(ret.monthly_savings, analysis.monthly_savings)

-----------------------------------------------------------------------------
(* The iterations of a year-by-year sweep.                                 *)

\* The rows are those of the years 0, 1, ..., horizon, one each, in this order.
VisitsEveryYear(rows, horizon) ==
    /\ Len(rows) = horizon + 1
    /\ \A i \in 1..Len(rows) : rows[i].year = i - 1

\* The Streamlit handler reaches its year loop: its two direct calls and its risk
\* sweep return.
ReachesYearLoop(self) ==
    /\ calculate_buy_scenario(self, Num(0), FALSE).exc = "none"
    /\ calculate_rent_scenario(self, FALSE).exc = "none"
    /\ generate_risk_scenarios(self, FALSE).exc = "none"

\* C19: a year-by-year sweep over the horizon H = years visits each year 0..H
\* exactly once, in ascending order, and terminates after H + 1 iterations (the
\* overwrites of `years` inside the loop do not move the loop bound); when it is
\* over, `years` is H again.
C19_SweepVisitsEveryYearOnce ==
    [][(\/ CallOf("generate_yearly_comparison")
        \/ CallOf("streamlit_main") /\ ReachesYearLoop(analysis))
        => /\ exc' = "none"
           /\ VisitsEveryYear(ret', analysis.years)
           /\ analysis'.years = analysis.years]_vars

-----------------------------------------------------------------------------
(* What show_real_values leaves alone.                                     *)

\* C20: the mortgage_breakdown sub-map (fixed_payment, variable_payment,
\* fixed_balance, variable_balance) that calculate_buy_scenario returns is the
\* same for show_real_values true and false, and so are ltv and default_risk.
C20_BreakdownIgnoresRealValues ==
    BuyReturned
        => LET other == calculate_buy_scenario(analysis, args.property_value_change,
                                               ~args.show_real_values)
           IN  /\ other.exc = "none"
               /\ \A k \in {"fixed_payment", "variable_payment", "fixed_balance",
                            "variable_balance"} :
                      ret.mortgage_breakdown[k] = other.mortgage_breakdown[k]
               /\ ret.ltv = other.ltv
               /\ ret.default_risk = other.default_risk

\* A buy scenario in real values under inflation returned a total payment that is
\* not the sum of the two payments of the breakdown: the total is deflated, the
\* breakdown is not.
C20_Witness ==
    /\ BuyReturned
    /\ args.show_real_values
    /\ RGt(analysis.inflation_rate, Zero)
    /\ RGt(ret.mortgage_breakdown.fixed_payment, Zero)
    /\ ret.mortgage_payment
           # RAdd(ret.mortgage_breakdown.fixed_payment, ret.mortgage_breakdown.variable_payment)

-----------------------------------------------------------------------------
(* Reentrancy of the sweeps.                                               *)

\* Both callers have run a sweep to its end, and neither sweep raised.
BothReturned == callers # NoValue /\ \A c \in Callers : callers[c].pc = "done"

NobodyRaised == \A c \in Callers : callers[c].pc # "raised"

\* At some point both callers were inside a sweep.
Overlapped == \E c \in Callers : callers[c].overlapped

\* Some scenario was computed on another caller's `years` or
\* `annual_appreciation_rate`.
ForeignCompute == \E c \in Callers : callers[c].foreign

FieldsAsInitially ==
    /\ analysis.years = args.years
    /\ analysis.annual_appreciation_rate = args.annual_appreciation_rate

\* C13: the sweeps are not reentrant.  Two callers that share one instance and
\* interleave the steps save, overwrite, compute, restore of the year-by-year
\* sweep or of generate_risk_scenarios can reach a state in which a scenario was
\* computed on the other caller's `years` or `annual_appreciation_rate`, or in
\* which a field differs from its initial value after both returned (the state
\* C13_Witness, reached with no exception raised); and the interleaving is the
\* cause: as long as the two sweeps do not overlap and raise nothing, every
\* scenario is computed on the caller's own values and the fields are back at
\* their initial values once both returned.
C13_InterferenceOnlyWhenInterleaved ==
    (callers # NoValue /\ NobodyRaised /\ ~Overlapped)
        => /\ ~ForeignCompute
           /\ BothReturned => FieldsAsInitially

\* Both callers returned without an exception, a scenario was computed on another
\* caller's value, and `years` is left different from its initial value.
C13_Witness ==
    /\ BothReturned
    /\ Overlapped
    /\ ForeignCompute
    /\ analysis.years # args.years

-----------------------------------------------------------------------------
(* The prime base rate.                                                    *)

\* The projection built like `self` but with another prime base rate.
WithPrime(self, prime_base_rate) ==
    RealEstateInvestmentAnalysis([ParamsOf(self) EXCEPT !.prime_base_rate = prime_base_rate])

\* The outcome (exception and value) of the last call, made on `self` instead.
OutcomeOn(self) ==
    IF op = "calculate_buy_scenario"
    THEN LET r == calculate_buy_scenario(self, args.property_value_change, args.show_real_values)
         IN  [exc |-> r.exc, ret |-> IF r.exc = "none" THEN r ELSE NoValue]
    ELSE IF op = "calculate_rent_scenario"
    THEN LET r == calculate_rent_scenario(self, args.show_real_values)
         IN  [exc |-> r.exc, ret |-> IF r.exc = "none" THEN r ELSE NoValue]
    ELSE LET r == generate_risk_scenarios(self, args.show_real_values)
         IN  [exc |-> r.exc, ret |-> IF r.exc = "none" THEN r.value ELSE NoValue]

\* The payment of the variable tranche re-amortized at variable_rate +
\* inflation_rate: a tranche with no spread, asked under a prime rate of
\* variable_rate.
PaymentAtVariableRate(self) ==
    get_payment_at_year(
        MortgageLoan(self.variable_loan_amount, self.variable_rate, self.loan_term_years,
                     FALSE, Zero),
        PaymentYear(self), self.inflation_rate, self.variable_rate)

-----------------------------------------------------------------------------
(* Year 0 of the sweep.                                                    *)

\* C22: at year 0 of the year-by-year sweep the nav of both scenarios is the down
\* payment (buy: property_value - loan_amount; rent: no savings yet, plus the
\* down payment), so nav_difference is 0 for every valid input and the row is
\* classified "negative", the class being "positive" only for nav_difference > 0.
C22_YearZeroDifferenceIsZero ==
    (op = "get_year_data")
        => /\ ret.data.buy_nav = analysis.amounts.down_payment
           /\ ret.data.rent_nav = analysis.amounts.down_payment
           /\ ret.data.nav_difference = Zero
           /\ ret.nav_difference_class = "negative"

-----------------------------------------------------------------------------
(* The two sweeps one after the other.                                     *)

\* What a caller sees of a sweep: its exception or its rows.
Seen(out) == [exc |-> out.exc, value |-> out.value]

\* C23: run one after the other on one instance, the two sweeps do not interfere.
\* generate_risk_scenarios never writes `years` and the year-by-year sweep never
\* writes annual_appreciation_rate; during the risk sweep the rate takes exactly
\* the values g, g - 1, g - 1, g + 1 and is back at g afterwards; so the sweep
\* that runs second, on the instance as the first one left it, gives what it
\* gives alone on a fresh instance, whichever of the two runs first.
C23_SweepsDoNotInterfere ==
    [][/\ (op = "__init__" /\ CallOf("generate_risk_scenarios"))
            => /\ analysis'.years = analysis.years
               /\ analysis'.annual_appreciation_rate = analysis.annual_appreciation_rate
               /\ (exc' = "none")
                      => GrowthRates(ret')
                             = <<analysis.annual_appreciation_rate,
                                 RSub(analysis.annual_appreciation_rate, One),
                                 RSub(analysis.annual_appreciation_rate, One),
                                 RAdd(analysis.annual_appreciation_rate, One)>>
               /\ \A show_real_values \in BOOLEAN :
                      Seen(generate_yearly_comparison(analysis', show_real_values))
                          = Seen(generate_yearly_comparison(analysis, show_real_values))
       /\ (op = "__init__" /\ CallOf("generate_yearly_comparison"))
            => /\ analysis'.annual_appreciation_rate = analysis.annual_appreciation_rate
               /\ \A show_real_values \in BOOLEAN :
                      Seen(generate_risk_scenarios(analysis', show_real_values))
                          = Seen(generate_risk_scenarios(analysis, show_real_values))]_vars

====
